---- MODULE Spec2Model ----
(***************************************************************************)
(* Model of the DigiMovie Stremio addon:                                   *)
(*   - the forwarding gateway (proxy GET handler, allowlist, size cap),    *)
(*   - the Digimovie provider session (isLogin, login, getMovieData),      *)
(*   - the stream handler that resolves a catalog id into stream links.    *)
(* Strings that the code inspects character by character (hostnames,       *)
(* titles, ids, season labels) are sequences of one-character strings.     *)
(* A handler is cut at its awaited calls: one action runs it up to the     *)
(* next awaited call, and one action per awaited call takes its answer.    *)
(***************************************************************************)
EXTENDS Integers, Sequences, FiniteSets, TLC

\* ------------------------------------------------------------------------
\* Bounds of the model
\* ------------------------------------------------------------------------

\* characters in a requested hostname
MaxHostLen == 3

\* get_movie_detail calls of one operation that the provider may reject
\* with 401 or 403
MaxDetailFetches == 3

\* items in a search answer
MaxResults == 2

\* words and separators a title given to normalizeTitle is made of
MaxTitleTokens == 5

\* times normalizeTitle is applied to its own result
MaxPasses == 2

\* requests the addon handles at the same time
MaxRequests == 2

\* tokens the provider issues while these requests run
MaxTokens == 3

\* JavaScript's undefined (a missing query parameter, a missing JSON field)
Undefined == "<undefined>"

SeqsUpTo(S, n) == UNION {[1..k -> S] : k \in 0..n}

Last(s) == s[Len(s)]

\* ------------------------------------------------------------------------
\* Forwarding gateway
\* ------------------------------------------------------------------------

\* characters a requested hostname is written with
HostChars == {"a", "b", "B", "."}

\* process.env.PROXY_ALLOWED_URLS.split(",")
ALLOWED_DOMAINS == << <<"b">>, <<"a", "a">> >>

MAX_FILE_SIZE == 10 * 1024 * 1024

maxRedirects == 5

\* String.prototype.endsWith
endsWith(s, suffix) ==
    /\ Len(suffix) <= Len(s)
    /\ SubSeq(s, Len(s) - Len(suffix) + 1, Len(s)) = suffix

toLowerCaseChar(c) == IF c = "B" THEN "b" ELSE c

\* the value of req.query.url: missing, empty, or a text that the URL parser
\* accepts (wellFormed) or rejects, written with the host it names
NoUrl(g) == [given |-> g, wellFormed |-> FALSE, host |-> <<>>]

TargetUrls ==
    {NoUrl("missing"), NoUrl("empty")}
      \cup [given : {"text"}, wellFormed : BOOLEAN,
            host : SeqsUpTo(HostChars, MaxHostLen) \ {<<>>}]

\* !targetUrl : the parameter is absent or the empty string
isFalsyUrl(u) == u.given # "text"

\* hosts an upstream may redirect to (the Location of a 3xx answer)
HopHosts == {<<"b">>, <<"a", ".", "b">>, <<"a", "b">>, <<"b", ".", "a">>}

\* new URL(u).hostname : the parser lower-cases the host
hostname(u) == [i \in 1..Len(u.host) |-> toLowerCaseChar(u.host[i])]

\* the suffix test without the separating dot
isAllowedHost_noDot(h) ==
    \E i \in DOMAIN ALLOWED_DOMAINS :
        \/ h = ALLOWED_DOMAINS[i]
        \/ endsWith(h, ALLOWED_DOMAINS[i])

\* ALLOWED_DOMAINS.some(d => h === d || h.endsWith(`.${d}`))
isAllowedHost(h) ==
    \E i \in DOMAIN ALLOWED_DOMAINS :
        \/ h = ALLOWED_DOMAINS[i]
        \/ endsWith(h, <<".">> \o ALLOWED_DOMAINS[i])

\* the re-check looking at the requested URL again instead of responseUrl
finalHostname_requested(u, hops) == hostname(u)

\* response.request.res.responseUrl || targetUrl, then new URL(..).hostname
finalHostname(u, hops) ==
    IF hops = <<>> THEN hostname(u) ELSE Last(hops)

\* a response written by res.status(..).send(..): the status, the number of
\* upstream bytes in its body and its Content-Type
Response(st, n, ct) == [status |-> st, bytes |-> n, ctype |-> ct]

ErrorResponse(st) == Response(st, 0, "text/html")

\* body sizes an upstream may answer with
FileSizes == {0, MAX_FILE_SIZE - 1, MAX_FILE_SIZE, MAX_FILE_SIZE + 1,
              2 * MAX_FILE_SIZE}

ContentTypes == {"video/mp4", "application/x-subrip"}

\* what the awaited axios call ends with: a thrown error (timeout, network
\* failure, status outside 200..399, too many redirects) or a response
UpstreamOutcomes ==
    {[kind |-> "error", size |-> 0, ctype |-> "none"]}
      \cup [kind : {"ok"}, size : FileSizes, ctype : ContentTypes]

\* state of the addon process (stream and validation handlers, Digimovie)
VARIABLES
    stack,      \* calls in progress, outermost first
    apc,        \* the awaited call: probe, loginCall, detail; or idle, done
    digi,       \* fields of the Digimovie instance in use
    calls,      \* network calls issued since the operation began, by name
    last,       \* the latest network call and its answer
    relogins,   \* login() calls made by getMovieData since the operation began
    ret,        \* what the operation returned or threw to its caller
    out,        \* responses written by the handler
    req,        \* the stream request being handled
    title,      \* searchTitle of the stream handler
    found,      \* bestMatch.id, the id the detail is fetched for
    data,       \* res.data of the last answered get_movie_detail call
    loggedIn,   \* loggedIn of the stream handler: what its login() returned
    scored,     \* scoredResults of the stream handler, before the sort
    links       \* links of the stream handler: what getLinks returned

avars == <<stack, apc, digi, calls, last, relogins, ret, out, req, title,
           found, data, loggedIn, scored, links>>

\* a caller of normalizeTitle
VARIABLES
    input,      \* the string first given to normalizeTitle
    passes      \* what normalizeTitle returned, applied again to its result

tvars == <<input, passes>>

\* requests handled concurrently by the addon process
VARIABLES
    sess,       \* per request: the configuration of its handler and instance
    granted,    \* per request: the tokens its own login calls were answered with
    sentAuth,   \* per request: the authorization values its calls carried
    issued      \* tokens the provider has issued

svars == <<sess, granted, sentAuth, issued>>

\* state of the gateway process (proxy GET handler)
VARIABLES
    rpc,        \* position of the proxy GET handler: idle, fetching, done
    targetUrl,  \* req.query.url of the request being handled
    chain,      \* hosts of the redirects axios followed, in order
    fetches,    \* upstream requests issued for this request
    upstream,   \* what the awaited axios call ended with
    sent        \* responses written to the client, in order

rvars == <<rpc, targetUrl, chain, fetches, upstream, sent>>

NoUpstream == [kind |-> "none", size |-> 0, ctype |-> "none"]

RelayInit ==
    /\ rpc = "idle"
    /\ targetUrl = NoUrl("missing")
    /\ chain = <<>>
    /\ fetches = 0
    /\ upstream = NoUpstream
    /\ sent = <<>>

\* part of the handler before the awaited fetch: the handler answers itself
\* (400, 403) or issues the fetch
ProxyGet(u) ==
    /\ rpc = "idle"
    /\ targetUrl' = u
    /\ chain' = <<>>
    /\ upstream' = NoUpstream
    /\ IF isFalsyUrl(u)
         THEN /\ sent' = <<ErrorResponse(400)>>
              /\ rpc' = "done"
              /\ fetches' = 0
       ELSE IF ~u.wellFormed
         THEN /\ sent' = <<ErrorResponse(400)>>
              /\ rpc' = "done"
              /\ fetches' = 0
       ELSE IF ~isAllowedHost(hostname(u))
         THEN /\ sent' = <<ErrorResponse(403)>>
              /\ rpc' = "done"
              /\ fetches' = 0
       ELSE /\ sent' = <<>>
            /\ rpc' = "fetching"
            /\ fetches' = 1
    /\ UNCHANGED <<avars, tvars, svars>>

\* axios follows a 3xx answer to host h (at most maxRedirects of them)
FollowRedirect(h) ==
    /\ rpc = "fetching"
    /\ Len(chain) < maxRedirects
    /\ chain' = Append(chain, h)
    /\ fetches' = fetches + 1
    /\ UNCHANGED <<rpc, targetUrl, upstream, sent>>
    /\ UNCHANGED <<avars, tvars, svars>>

\* the size test written with >= instead of >
AfterFetch_sizeGe(u, hops, res) ==
    IF res.kind = "error"
      THEN <<ErrorResponse(500)>>
    ELSE IF ~isAllowedHost(finalHostname(u, hops))
      THEN <<ErrorResponse(403)>>
    ELSE IF res.size >= MAX_FILE_SIZE
      THEN <<ErrorResponse(413)>>
    ELSE <<Response(200, res.size, res.ctype)>>

\* the 403 of the final host check sent without returning from the handler
AfterFetch_noReturn(u, hops, res) ==
    IF res.kind = "error"
      THEN <<ErrorResponse(500)>>
    ELSE (IF ~isAllowedHost(finalHostname(u, hops))
            THEN <<ErrorResponse(403)>> ELSE <<>>)
         \o (IF res.size > MAX_FILE_SIZE
               THEN <<ErrorResponse(413)>>
               ELSE <<Response(200, res.size, res.ctype)>>)

\* the responses the handler writes once the awaited fetch has ended
AfterFetch(u, hops, res) ==
    IF res.kind = "error"
      THEN <<ErrorResponse(500)>>
    ELSE IF ~isAllowedHost(finalHostname(u, hops))
      THEN <<ErrorResponse(403)>>
    ELSE IF res.size > MAX_FILE_SIZE
      THEN <<ErrorResponse(413)>>
    ELSE <<Response(200, res.size, res.ctype)>>

\* the awaited fetch ends and the rest of the handler runs
FetchDone(res) ==
    /\ rpc = "fetching"
    /\ upstream' = res
    /\ sent' = sent \o AfterFetch(targetUrl, chain, res)
    /\ rpc' = "done"
    /\ UNCHANGED <<targetUrl, chain, fetches>>
    /\ UNCHANGED <<avars, tvars, svars>>

\* the next request arrives
NextRequest ==
    /\ rpc = "done"
    /\ rpc' = "idle"
    /\ targetUrl' = NoUrl("missing")
    /\ chain' = <<>>
    /\ fetches' = 0
    /\ upstream' = NoUpstream
    /\ sent' = <<>>
    /\ UNCHANGED <<avars, tvars, svars>>

RelayNext ==
    \/ \E u \in TargetUrls : ProxyGet(u)
    \/ \E h \in HopHosts : FollowRedirect(h)
    \/ \E res \in UpstreamOutcomes : FetchDone(res)
    \/ NextRequest

\* ------------------------------------------------------------------------
\* Title normalisation and scoring (stream handler helpers)
\* ------------------------------------------------------------------------

isSpace(c) == c = " "

isDigit(c) == c \in {"0", "1", "2", "3", "4", "5", "6", "7", "8", "9"}

toLowerChar(c) ==
    CASE c = "A" -> "a" [] c = "M" -> "m" [] c = "T" -> "t"
      [] c = "X" -> "x" [] OTHER -> c

toLowerCase(s) == [i \in 1..Len(s) |-> toLowerChar(s[i])]

Drop(s, n) == SubSeq(s, n + 1, Len(s))

startsWith(s, prefix) ==
    Len(prefix) <= Len(s) /\ SubSeq(s, 1, Len(prefix)) = prefix

includes(s, part) ==
    \E i \in 1..(Len(s) - Len(part) + 1) :
        SubSeq(s, i, i + Len(part) - 1) = part

\* number of whitespace characters s begins with
RECURSIVE LeadingSpaces(_)
LeadingSpaces(s) ==
    IF s # <<>> /\ isSpace(s[1]) THEN 1 + LeadingSpaces(Drop(s, 1)) ELSE 0

\* s.replace(/^<word>\s+/i, "") on an already lower-cased s
stripLeading(s, word) ==
    IF startsWith(s, word) /\ LeadingSpaces(Drop(s, Len(word))) > 0
      THEN Drop(s, Len(word) + LeadingSpaces(Drop(s, Len(word))))
      ELSE s

\* s.replace(/&/g, "and")
RECURSIVE replaceAmp(_)
replaceAmp(s) ==
    IF s = <<>> THEN <<>>
    ELSE (IF s[1] = "&" THEN <<"a", "n", "d">> ELSE <<s[1]>>)
           \o replaceAmp(Drop(s, 1))

\* s.replace(/[:\-\.]/g, " ")
replacePunct(s) ==
    [i \in 1..Len(s) |-> IF s[i] \in {":", "-", "."} THEN " " ELSE s[i]]

\* s.replace(/\s+/g, " ")
RECURSIVE collapseSpaces(_)
collapseSpaces(s) ==
    IF s = <<>> THEN <<>>
    ELSE IF isSpace(s[1])
      THEN <<" ">> \o collapseSpaces(Drop(s, LeadingSpaces(s)))
      ELSE <<s[1]>> \o collapseSpaces(Drop(s, 1))

RECURSIVE trimEnd(_)
trimEnd(s) ==
    IF s # <<>> /\ isSpace(s[Len(s)])
      THEN trimEnd(SubSeq(s, 1, Len(s) - 1)) ELSE s

\* String.prototype.trim
trim(s) == trimEnd(Drop(s, LeadingSpaces(s)))

\* normalizeTitle(str); a missing name is the empty sequence, which the
\* code maps to "" as it does the empty string
normalizeTitle(str) ==
    IF str = <<>> THEN <<>>
    ELSE trim(collapseSpaces(replacePunct(
           stripLeading(stripLeading(stripLeading(
               replaceAmp(toLowerCase(str)),
               <<"t", "h", "e">>), <<"a">>), <<"a", "n">>))))

\* texts a title is written with: words, among them the articles, and
\* separators
TitleTokens ==
    { <<"T", "h", "e">>, <<"a">>, <<"a", "n">>, <<"x">>,
      <<" ">>, <<"-">>, <<"&">> }

RECURSIVE Concat(_)
Concat(ts) == IF ts = <<>> THEN <<>> ELSE ts[1] \o Concat(Drop(ts, 1))

TitleInputs == {Concat(ts) : ts \in SeqsUpTo(TitleTokens, MaxTitleTokens)}

\* no call of normalizeTitle is under way
TitleIdle == input = <<>> /\ passes = <<>>

\* a caller holds a title and has not normalised it yet
TitleInit == input \in TitleInputs /\ passes = <<>>

\* normalizeTitle is called, on the title first and on its own result then
Normalize ==
    /\ Len(passes) < MaxPasses
    /\ passes' = Append(passes, normalizeTitle(IF passes = <<>> THEN input
                                                ELSE Last(passes)))
    /\ UNCHANGED <<input, rvars, avars, svars>>

TitleNext == Normalize

\* s from position i on matches \s*\(\d{4}\)
yearAt(s, i) ==
    LET j == i + LeadingSpaces(Drop(s, i - 1)) IN
      /\ j + 5 <= Len(s)
      /\ s[j] = "("
      /\ \A d \in 1..4 : isDigit(s[j + d])
      /\ s[j + 5] = ")"

\* originalTitle.replace(/\s*\(\d{4}\).*$/, "").trim()
searchTitleOf(originalTitle) ==
    LET hits == {i \in 1..Len(originalTitle) : yearAt(originalTitle, i)} IN
      IF hits = {} THEN trim(originalTitle)
      ELSE LET first == CHOOSE i \in hits : \A j \in hits : i <= j IN
             trim(SubSeq(originalTitle, 1, first - 1))

\* the scoring with no bonus for a result of the requested type
scoreOf_noKindBonus(item, type, normalizedSearchTitle) ==
    LET normalizedItemName == normalizeTitle(item.name) IN
      (IF item.type = type THEN 0 ELSE 0 - 50)
        + (IF normalizedItemName = normalizedSearchTitle THEN 60
           ELSE IF startsWith(normalizedItemName, normalizedSearchTitle) THEN 20
           ELSE IF includes(normalizedItemName, normalizedSearchTitle) THEN 10
           ELSE 0)

\* the scoring with the starts-with bonus left out
scoreOf_noPrefix(item, type, normalizedSearchTitle) ==
    LET normalizedItemName == normalizeTitle(item.name) IN
      (IF item.type = type THEN 100 ELSE 0 - 50)
        + (IF normalizedItemName = normalizedSearchTitle THEN 60
           ELSE IF includes(normalizedItemName, normalizedSearchTitle) THEN 10
           ELSE 0)

\* the score the handler gives a search result for the requested type and
\* the normalised search title
scoreOf(item, type, normalizedSearchTitle) ==
    LET normalizedItemName == normalizeTitle(item.name) IN
      (IF item.type = type THEN 100 ELSE 0 - 50)
        + (IF normalizedItemName = normalizedSearchTitle THEN 60
           ELSE IF startsWith(normalizedItemName, normalizedSearchTitle) THEN 20
           ELSE IF includes(normalizedItemName, normalizedSearchTitle) THEN 10
           ELSE 0)

\* searchResults.map(item => ({...item, score}))
scoredResults(searchResults, type, normalizedSearchTitle) ==
    [i \in 1..Len(searchResults) |->
        [item |-> searchResults[i],
         score |-> scoreOf(searchResults[i], type, normalizedSearchTitle)]]

\* the first result taken without sorting
bestMatchOf_unsorted(entries) == entries[1]

\* a sort that puts the last of the entries with the highest score first
bestMatchOf_lastOfTop(entries) ==
    LET top == CHOOSE i \in DOMAIN entries :
                 /\ \A j \in DOMAIN entries : entries[j].score <= entries[i].score
                 /\ \A j \in (i + 1)..Len(entries) :
                        entries[j].score < entries[i].score
    IN entries[top]

\* scoredResults.sort((a, b) => b.score - a.score)[0] : the sort is stable,
\* so the first of the entries with the highest score comes first
bestMatchOf(entries) ==
    LET top == CHOOSE i \in DOMAIN entries :
                 /\ \A j \in DOMAIN entries : entries[j].score <= entries[i].score
                 /\ \A j \in 1..(i - 1) : entries[j].score < entries[i].score
    IN entries[top]

\* ------------------------------------------------------------------------
\* Link extraction: getMovieLinks, getSeriesLinks, getLinks
\* ------------------------------------------------------------------------

\* the payload of get_movie_detail: each list may be absent
DetailData(hasMovie, movieUrls, hasSerie, serieUrls) ==
    [hasMovieUrls |-> hasMovie, movie_download_urls |-> movieUrls,
     hasSerieUrls |-> hasSerie, serie_download_urls |-> serieUrls]

\* getMovieData returned null
NullData == DetailData(FALSE, <<>>, FALSE, <<>>)

Link(url, text) == [url |-> url, title |-> text]

\* what an extraction method ends with: the links it returns, or a
\* TypeError it lets through to its caller
Extracted(list) == [kind |-> "links", links |-> list]

ExtractionThrew == [kind |-> "throw", links |-> <<>>]

\* the handler has not called getLinks
NoLinks == [kind |-> "none", links |-> <<>>]

\* the loop of getMovieLinks: reading item.quality of a null entry throws
RECURSIVE movieLinksOf(_)
movieLinksOf(items) ==
    IF items = <<>> THEN Extracted(<<>>)
    ELSE LET item == items[1] IN
      IF item.isNull THEN ExtractionThrew
      ELSE LET rest == movieLinksOf(Drop(items, 1)) IN
        IF rest.kind = "throw" THEN ExtractionThrew
        ELSE Extracted(
               <<Link(item.file,
                      item.quality \o " - " \o item.size \o " - "
                        \o item.encode \o " - " \o item.label)>>
                 \o rest.links)

\* the loop left after its first entry
getMovieLinks_firstOnly(isNull, movieData) ==
    IF isNull \/ ~movieData.hasMovieUrls THEN Extracted(<<>>)
    ELSE IF movieData.movie_download_urls = <<>> THEN Extracted(<<>>)
    ELSE movieLinksOf(<<movieData.movie_download_urls[1]>>)

\* getMovieLinks(movieData)
getMovieLinks(isNull, movieData) ==
    IF isNull \/ ~movieData.hasMovieUrls THEN Extracted(<<>>)
    ELSE movieLinksOf(movieData.movie_download_urls)

\* imdbId.split(":")
RECURSIVE split(_)
split(s) ==
    IF \A i \in DOMAIN s : s[i] # ":" THEN <<s>>
    ELSE LET at == CHOOSE i \in DOMAIN s :
                     s[i] = ":" /\ \A j \in 1..(i - 1) : s[j] # ":"
         IN <<SubSeq(s, 1, at - 1)>> \o split(Drop(s, at))

digitValue(c) ==
    CASE c = "0" -> 0 [] c = "1" -> 1 [] c = "2" -> 2 [] c = "3" -> 3
      [] c = "4" -> 4 [] c = "5" -> 5 [] c = "6" -> 6 [] c = "7" -> 7
      [] c = "8" -> 8 [] c = "9" -> 9

\* a JavaScript number: NaN or an integer
NaN == [nan |-> TRUE, n |-> 0]

Num(n) == [nan |-> FALSE, n |-> n]

\* value of the digits s begins with, read after acc
RECURSIVE readDigits(_, _)
readDigits(s, acc) ==
    IF s # <<>> /\ isDigit(s[1])
      THEN readDigits(Drop(s, 1), 10 * acc + digitValue(s[1]))
      ELSE acc

\* parseInt(s) for a text without sign
parseInt(s) ==
    LET t == Drop(s, LeadingSpaces(s)) IN
      IF t # <<>> /\ isDigit(t[1]) THEN Num(readDigits(t, 0)) ELSE NaN

digitChar(d) ==
    CASE d = 0 -> "0" [] d = 1 -> "1" [] d = 2 -> "2" [] d = 3 -> "3"
      [] d = 4 -> "4" [] d = 5 -> "5" [] d = 6 -> "6" [] d = 7 -> "7"
      [] d = 8 -> "8" [] d = 9 -> "9"

\* `${n}` for a number
RECURSIVE numberToString(_)
numberToString(x) ==
    IF x.nan THEN <<"N", "a", "N">>
    ELSE IF x.n < 10 THEN <<digitChar(x.n)>>
    ELSE numberToString(Num(x.n \div 10)) \o <<digitChar(x.n % 10)>>

\* s.replace(" ", "") : only the first blank goes
removeFirstSpace(s) ==
    IF \A i \in DOMAIN s : s[i] # " " THEN s
    ELSE LET at == CHOOSE i \in DOMAIN s :
                     s[i] = " " /\ \A j \in 1..(i - 1) : s[j] # " "
         IN SubSeq(s, 1, at - 1) \o Drop(s, at)

\* season and episode the id asks for
seasonOf(imdbId) ==
    LET parts == split(imdbId) IN
      IF Len(parts) >= 3 THEN parseInt(parts[2]) ELSE Num(1)

\* the episode number taken as the 0-based index
episodeOf_zeroBased(imdbId) ==
    LET parts == split(imdbId) IN
      IF Len(parts) >= 3
        THEN (LET e == parseInt(parts[3]) IN
                IF e.nan THEN e ELSE Num(e.n + 1))
        ELSE Num(1)

episodeOf(imdbId) ==
    LET parts == split(imdbId) IN
      IF Len(parts) >= 3 THEN parseInt(parts[3]) ELSE Num(1)

\* the filter of getSeriesLinks
seasonMatches(item, season) ==
    includes(removeFirstSpace(item.season_name),
             <<":">> \o numberToString(season))

\* the loop of getSeriesLinks over the buckets
RECURSIVE seriesLinksOf(_, _, _)
seriesLinksOf(items, season, episode) ==
    IF items = <<>> THEN <<>>
    ELSE LET item == items[1]
             rest == seriesLinksOf(Drop(items, 1), season, episode)
         IN IF ~seasonMatches(item, season) THEN rest
            ELSE IF item.hasLinks /\ ~episode.nan
                    /\ episode.n - 1 \in 0..(Len(item.links) - 1)
              THEN <<Link(item.links[episode.n].movie,
                          item.quality \o " - " \o item.size)>> \o rest
            ELSE rest

\* getSeriesLinks(movieData, imdbId): the filter runs over all the buckets
\* before the loop, and reading i.season_name of a null bucket throws into
\* the catch block of the method, which returns the links gathered so far
getSeriesLinks(isNull, movieData, imdbId) ==
    IF ~isNull /\ movieData.hasSerieUrls
      THEN IF \E i \in DOMAIN movieData.serie_download_urls :
                  movieData.serie_download_urls[i].isNull
             THEN Extracted(<<>>)
             ELSE Extracted(seriesLinksOf(movieData.serie_download_urls,
                                          seasonOf(imdbId), episodeOf(imdbId)))
      ELSE Extracted(<<>>)

getLinks(type, imdbId, isNull, movieData) ==
    IF type = "movie" THEN getMovieLinks(isNull, movieData)
    ELSE IF type = "series" THEN getSeriesLinks(isNull, movieData, imdbId)
    ELSE Extracted(<<>>)

\* ------------------------------------------------------------------------
\* Provider session: class Digimovie
\* ------------------------------------------------------------------------

\* !x for the strings the code tests: "" and undefined are falsy
Falsy(x) == x \in {"", Undefined}

\* values a caller may pass as username / password (digiUser, digiPass)
Credentials == {"", Undefined, "secret"}

\* tokens the provider may issue
AuthTokens == {"t1", "t2"}

RefreshTokens == {"r1"}

\* the fields of a Digimovie instance right after construction
NewDigimovie(username, password) ==
    [username |-> username, password |-> password,
     token |-> "", refreshToken |-> ""]

\* what the awaited get_profile call ends with: a thrown error (transport
\* failure, status outside 200..399) or a body whose status flag is set or not
ProbeOutcomes == {"throw", "status", "nostatus"}

\* what the awaited login call ends with
LoginOutcomes ==
    [kind : {"throw", "nostatus"}, auth_token : {Undefined},
     refresh_token : {Undefined}]
      \cup [kind : {"status"}, auth_token : AuthTokens \cup {Undefined},
            refresh_token : RefreshTokens \cup {Undefined}]

\* a network call and what it was answered with
Exchange(name, answer, arg) == [name |-> name, answer |-> answer, arg |-> arg]

NoExchange == Exchange("none", "none", "")

CallNames == {"cinemeta", "get_profile", "login", "search", "get_movie_detail"}

NoCalls == [n \in CallNames |-> 0]

Issued(k, name, answer, arg) ==
    [k EXCEPT !.calls[name] = @ + 1, !.last = Exchange(name, answer, arg)]

\* configuration of the session code between two awaited calls
\*   stack  the calls in progress, outermost first
\*   pc     the awaited call, or idle / done
\*   digi   the fields of the Digimovie instance
\*   calls  how many network calls of each name were issued since the
\*          operation began
\*   last   the latest of them, with the answer it got
\*   relogins  login() calls made by getMovieData since the operation began
\*   ret    what the operation returned or threw to its caller
\*   out    the responses a handler wrote
NoReturn == [op |-> "none", kind |-> "none", value |-> Undefined]

Returned(f, v) == [op |-> f, kind |-> "return", value |-> v]

Thrown(f) == [op |-> f, kind |-> "throw", value |-> Undefined]

Pop(st) == SubSeq(st, 1, Len(st) - 1)

\* JSON bodies the addon handlers write
ValidateResponse(st, ok) ==
    [kind |-> "validate", status |-> st, success |-> ok, streams |-> <<>>]

StreamResponse(streams) ==
    [kind |-> "stream", status |-> 200, success |-> TRUE, streams |-> streams]

\* the placeholder entries the stream handler answers with
ConfigWarning == Link("", "config-warning")

LoginError == Link("", "login-error")

\* what parseConfig(config) gives: null, or an object whose fields may miss
Configs ==
    [parsed : {FALSE}, digiUser : {Undefined}, digiPass : {Undefined}]
      \cup [parsed : {TRUE}, digiUser : Credentials, digiPass : Credentials]

\* the :id of a stream request
Ids == { <<"t", "t", "1">>,
         <<"t", "t", "1", ":", "1", ":", "2">>,
         <<"t", "t", "1", ":", "2", ":", "1">> }

\* the request a stream handler works on: its parameters and the
\* PROXY_ENABLE setting it reads
Request(config, type, id, proxy) ==
    [config |-> config, type |-> type, id |-> id, proxy |-> proxy]

NoRequest ==
    Request([parsed |-> FALSE, digiUser |-> Undefined, digiPass |-> Undefined],
            "movie", <<>>, FALSE)

\* names the catalog may give (metaData.meta.name)
Titles == { <<"M", "a", "t">>,
            <<"T", "h", "e", " ", "M", "a", "t", " ", "(", "1", "9", "9", "9", ")">>,
            <<"T", "a", "x">> }

\* items of the provider's search answer
RawItems ==
    { [title_en |-> <<"T", "h", "e", " ", "M", "a", "t">>, type |-> "movie", id |-> "m1"],
      [title_en |-> <<"M", "a", "t">>, type |-> "tv", id |-> "s1"],
      [title_en |-> <<"M", "a", "t", " ", "X">>, type |-> "movie", id |-> "m2"],
      [title_en |-> <<"X", " ", "M", "a", "t">>, type |-> "series", id |-> "s2"] }

\* the item search() builds from a provider item
searchItem(item) ==
    [name |-> item.title_en,
     type |-> IF item.type = "movie" THEN "movie" ELSE "series",
     id |-> item.id]

\* encodeURIComponent, on an opaque url
encodeURIComponent(url) == "enc(" \o url \o ")"

\* links.forEach(..) of the stream handler
RECURSIVE decorate(_, _)
decorate(list, proxy) ==
    IF list = <<>> THEN <<>>
    ELSE <<Link(IF proxy
                  THEN "proxy?url=" \o encodeURIComponent(list[1].url)
                  ELSE list[1].url,
                "[DigiMovie] " \o list[1].title)>>
           \o decorate(Drop(list, 1), proxy)

\* the handler writes a response and ends
Respond(k, response) ==
    [k EXCEPT !.stack = <<>>, !.pc = "done", !.out = Append(@, response)]

\* getMovieData(type, id) up to its awaited get_movie_detail call
Call_getMovieData(k) ==
    [k EXCEPT !.stack = Append(@, "getMovieData"), !.pc = "detail"]

\* an exception leaves frame f and travels up the callers of k.stack
RECURSIVE Raise(_, _)
Raise(k, f) ==
    IF k.stack = <<>>
      THEN [k EXCEPT !.pc = "done", !.ret = Thrown(f)]
    ELSE LET c == Last(k.stack) IN
      CASE c = "validate" ->
             \* catch (e) of the validation handler
             Respond(k, ValidateResponse(500, FALSE))
        [] c = "stream" ->
             \* catch (err) around the provider steps: allStreams is empty
             Respond(k, StreamResponse(<<>>))
        [] OTHER ->
             \* login() and the catch block of getMovieData let it through
             Raise([k EXCEPT !.stack = Pop(@)], c)

\* the stream handler with the login gate left out
AfterLogin_noGate(k, v) ==
    [k EXCEPT !.loggedIn = v, !.pc = "search"]

\* the stream handler once its login() call returned v
AfterLogin(k, v) ==
    IF v = "true"
      THEN [k EXCEPT !.loggedIn = v, !.pc = "search"]
      ELSE Respond([k EXCEPT !.loggedIn = v], StreamResponse(<<LoginError>>))

\* the stream handler with no catch block around the extraction
AfterGetMovieData_noCatch(k, v) ==
    IF v = "data"
      THEN LET r == getLinks(k.req.type, k.req.id, FALSE, k.data) IN
             IF r.kind = "throw"
               THEN [k EXCEPT !.links = r, !.stack = <<>>, !.pc = "done",
                              !.ret = Thrown("getLinks")]
               ELSE Respond([k EXCEPT !.links = r],
                            StreamResponse(decorate(r.links, k.req.proxy)))
      ELSE Respond(k, StreamResponse(<<>>))

\* the stream handler once getMovieData returned v:
\* if (movieDetails) { links = digi.getLinks(..); allStreams.push(...links) }
AfterGetMovieData(k, v) ==
    IF v = "data"
      THEN LET r == getLinks(k.req.type, k.req.id, FALSE, k.data) IN
             IF r.kind = "throw"
               THEN Raise([k EXCEPT !.links = r], "getLinks")
               ELSE Respond([k EXCEPT !.links = r],
                            StreamResponse(decorate(r.links, k.req.proxy)))
      ELSE Respond(k, StreamResponse(<<>>))

\* frame f returns v to the innermost caller of k.stack, which runs on to
\* its next awaited call or to its own return
RECURSIVE Return(_, _, _)
Return(k, f, v) ==
    IF k.stack = <<>>
      THEN [k EXCEPT !.pc = "done", !.ret = Returned(f, v)]
    ELSE LET c == Last(k.stack) IN
      CASE f = "isLogin" /\ c = "login" ->
             IF v = "true"
               THEN Return([k EXCEPT !.stack = Pop(@)], "login", "true")
               ELSE [k EXCEPT !.pc = "loginCall"]
        [] f = "login" /\ c = "getMovieData" ->
             IF v = "true"
               THEN Call_getMovieData(k)
               ELSE Return([k EXCEPT !.stack = Pop(@)], "getMovieData", "null")
        [] f = "getMovieData" /\ c = "getMovieData" ->
             Return([k EXCEPT !.stack = Pop(@)], "getMovieData", v)
        [] f = "login" /\ c = "validate" ->
             Respond(k, ValidateResponse(200, v = "true"))
        [] f = "login" /\ c = "stream" -> AfterLogin(k, v)
        [] f = "getMovieData" /\ c = "stream" -> AfterGetMovieData(k, v)

\* isLogin() up to its awaited get_profile call
Call_isLogin(k) ==
    IF Falsy(k.digi.token)
      THEN Return(k, "isLogin", "false")
      ELSE [k EXCEPT !.stack = Append(@, "isLogin"), !.pc = "probe"]

\* the credential test skipped
Call_login_noGuard(k) ==
    Call_isLogin([k EXCEPT !.stack = Append(@, "login")])

\* login() up to its first awaited call
Call_login(k) ==
    IF Falsy(k.digi.username) \/ Falsy(k.digi.password)
      THEN Return(k, "login", "false")
      ELSE Call_isLogin([k EXCEPT !.stack = Append(@, "login")])

\* the get_profile call written without its try / catch
ProbeEnds_noCatch(k, o) ==
    LET k1 == [k EXCEPT !.stack = Pop(@)] IN
      IF o = "throw" THEN Raise(k1, "isLogin")
      ELSE IF o = "status" THEN Return(k1, "isLogin", "true")
      ELSE Return(k1, "isLogin", "false")

\* the awaited get_profile call of isLogin() ends with o
ProbeEnds(k, o) ==
    LET k1 == [k EXCEPT !.stack = Pop(@)] IN
      IF o = "status"
        THEN Return(k1, "isLogin", "true")
        ELSE Return(k1, "isLogin", "false")

\* the awaited login call of login() ends with o
LoginEnds(k, o) ==
    LET k1 == [k EXCEPT !.stack = Pop(@)] IN
      IF o.kind = "status"
        THEN Return([k1 EXCEPT !.digi.token = o.auth_token,
                               !.digi.refreshToken = o.refresh_token],
                    "login", "true")
        ELSE Return(k1, "login", "false")

\* payloads the provider may answer get_movie_detail with
MovieEntry(quality, size, encode, label, file) ==
    [isNull |-> FALSE, quality |-> quality, size |-> size, encode |-> encode,
     label |-> label, file |-> file]

\* a null in movie_download_urls
NullEntry ==
    [isNull |-> TRUE, quality |-> Undefined, size |-> Undefined,
     encode |-> Undefined, label |-> Undefined, file |-> Undefined]

Bucket(season_name, quality, size, hasLinks, episodes) ==
    [isNull |-> FALSE, season_name |-> season_name, quality |-> quality,
     size |-> size, hasLinks |-> hasLinks, links |-> episodes]

\* a null in serie_download_urls
NullBucket ==
    [isNull |-> TRUE, season_name |-> <<>>, quality |-> Undefined,
     size |-> Undefined, hasLinks |-> FALSE, links |-> <<>>]

Details ==
    { DetailData(TRUE, << MovieEntry("1080p", "2GB", "x265", "WEB", "f1"),
                          MovieEntry("720p", "1GB", "x264", "BluRay", "f2") >>,
                 FALSE, <<>>),
      DetailData(TRUE, <<>>, FALSE, <<>>),
      DetailData(TRUE, << MovieEntry("1080p", "2GB", "x265", "WEB", "f1"),
                          NullEntry >>,
                 FALSE, <<>>),
      DetailData(FALSE, <<>>, TRUE,
                 << Bucket(<<"S", " ", ":", "1">>, "720p", "1GB", TRUE,
                           <<[movie |-> "e11"], [movie |-> "e12"]>>),
                    Bucket(<<"S", " ", ":", "2">>, "720p", "1GB", TRUE,
                           <<[movie |-> "e21"]>>),
                    Bucket(<<"S", " ", ":", "1", "0">>, "480p", "3GB", TRUE,
                           <<[movie |-> "e101"], [movie |-> "e102"]>>),
                    Bucket(<<"S", " ", ":", "1">>, "1080p", "2GB", TRUE,
                           <<[movie |-> "e11b"]>>) >>),
      DetailData(FALSE, <<>>, TRUE,
                 << Bucket(<<"S", " ", ":", "1">>, "720p", "1GB", TRUE,
                           <<[movie |-> "e11"], [movie |-> "e12"]>>),
                    NullBucket >>) }

\* what the awaited get_movie_detail call ends with: a body with or without
\* the status flag, an error carrying a response status, or an error
\* without a response (timeout, network)
DetailOutcomes ==
    [kind : {"nostatus", "401", "403", "500", "noresponse"}, data : {NullData}]
      \cup [kind : {"status"}, data : Details]

\* the awaited get_movie_detail call of getMovieData() ends with o
DetailEnds(k, o) ==
    LET k1 == [k EXCEPT !.stack = Pop(@)] IN
      IF o.kind = "status"
        THEN Return([k1 EXCEPT !.data = o.data], "getMovieData", "data")
      ELSE IF o.kind = "nostatus" THEN Return(k1, "getMovieData", "null")
      ELSE IF o.kind \in {"401", "403"}
        THEN Call_login([k EXCEPT !.relogins = @ + 1])
      ELSE Return(k1, "getMovieData", "null")


Cur == [stack |-> stack, pc |-> apc, digi |-> digi, calls |-> calls,
        last |-> last, relogins |-> relogins, ret |-> ret, out |-> out, req |-> req,
        title |-> title, found |-> found, data |-> data,
        loggedIn |-> loggedIn, scored |-> scored, links |-> links]

Becomes(k) ==
    /\ stack' = k.stack
    /\ apc' = k.pc
    /\ digi' = k.digi
    /\ calls' = k.calls
    /\ last' = k.last
    /\ relogins' = k.relogins
    /\ ret' = k.ret
    /\ out' = k.out
    /\ req' = k.req
    /\ title' = k.title
    /\ found' = k.found
    /\ data' = k.data
    /\ loggedIn' = k.loggedIn
    /\ scored' = k.scored
    /\ links' = k.links
    /\ UNCHANGED <<rvars, tvars, svars>>

\* the configuration an operation starts from
Fresh(d) == [stack |-> <<>>, pc |-> "idle", digi |-> d, calls |-> NoCalls,
             last |-> NoExchange, relogins |-> 0, ret |-> NoReturn, out |-> <<>>,
             req |-> NoRequest, title |-> <<>>, found |-> "", data |-> NullData,
             loggedIn |-> "none", scored |-> <<>>, links |-> NoLinks]

AddonInit ==
    /\ stack = <<>>
    /\ apc = "idle"
    /\ digi = NewDigimovie("", "")
    /\ calls = NoCalls
    /\ last = NoExchange
    /\ relogins = 0
    /\ ret = NoReturn
    /\ out = <<>>
    /\ req = NoRequest
    /\ title = <<>>
    /\ found = ""
    /\ data = NullData
    /\ loggedIn = "none"
    /\ scored = <<>>
    /\ links = NoLinks

\* new Digimovie(baseURL, logger, username, password)
Construct(u, p) ==
    /\ apc = "idle"
    /\ Becomes(Fresh(NewDigimovie(u, p)))

\* a caller invokes digi.isLogin()
InvokeIsLogin ==
    /\ apc = "idle"
    /\ Becomes(Call_isLogin(Fresh(digi)))

\* a caller invokes digi.login()
InvokeLogin ==
    /\ apc = "idle"
    /\ Becomes(Call_login(Fresh(digi)))

\* a caller invokes digi.getMovieData(type, id)
InvokeGetMovieData ==
    /\ apc = "idle"
    /\ Becomes(Call_getMovieData(Fresh(digi)))

\* the validation handler from configuration k to its awaited login()
ValidateBegins(k, digiUser, digiPass) ==
    IF Falsy(digiUser) \/ Falsy(digiPass)
      THEN [k EXCEPT !.pc = "done", !.out = <<ValidateResponse(400, FALSE)>>]
      ELSE Call_login([k EXCEPT !.digi = NewDigimovie(digiUser, digiPass),
                                !.stack = <<"validate">>])

\* POST /validate
Validate(digiUser, digiPass) ==
    /\ apc = "idle"
    /\ Becomes(ValidateBegins(Fresh(digi), digiUser, digiPass))

\* the get_profile call is answered
Probe(o) ==
    /\ apc = "probe"
    /\ Becomes(ProbeEnds(Issued(Cur, "get_profile", o, digi.token), o))

\* the login call is answered
Login(o) ==
    /\ apc = "loginCall"
    /\ Becomes(LoginEnds(Issued(Cur, "login", o.kind, ""), o))

\* the get_movie_detail call is answered
Detail(o) ==
    /\ apc = "detail"
    /\ calls["get_movie_detail"] < MaxDetailFetches
         \/ o.kind \notin {"401", "403"}
    /\ Becomes(DetailEnds(Issued(Cur, "get_movie_detail", o.kind, found), o))

\* the test looking at the user name only
configMissing_userOnly(userConfig) ==
    ~userConfig.parsed \/ Falsy(userConfig.digiUser)

\* !userConfig || !userConfig.digiUser || !userConfig.digiPass
configMissing(userConfig) ==
    ~userConfig.parsed \/ Falsy(userConfig.digiUser)
      \/ Falsy(userConfig.digiPass)

\* the stream handler from configuration k to its awaited catalog lookup
StreamBegins(k, config, type, id, proxy) ==
    LET k1 == [k EXCEPT !.req = Request(config, type, id, proxy)] IN
      IF configMissing(config)
        THEN Respond(k1, StreamResponse(<<ConfigWarning>>))
        ELSE [k1 EXCEPT !.stack = <<"stream">>, !.pc = "cinemeta"]

\* GET /:config/stream/:type/:id.json, to the awaited catalog lookup
Stream(config, type, id, proxy) ==
    /\ apc = "idle"
    /\ Becomes(StreamBegins(Fresh(digi), config, type, id, proxy))

\* what the awaited getCinemeta call ends with: null after an error, a
\* body without meta.name, or a body with it
CinemetaOutcomes ==
    [kind : {"null", "noname"}, name : {<<>>}] \cup [kind : {"name"}, name : Titles]

\* the test passing a body that has no meta.name
metaMissing_nullOnly(o) == o.kind = "null"

\* !metaData?.meta?.name
metaMissing(o) == o.kind # "name" \/ o.name = <<>>

\* the stream handler once the catalog lookup of configuration k ended
\* with o, to its awaited login()
CinemetaEnds(k, o) ==
    IF metaMissing(o)
      THEN Respond(k, StreamResponse(<<>>))
      ELSE Call_login([k EXCEPT !.title = searchTitleOf(o.name),
                                !.digi = NewDigimovie(k.req.config.digiUser,
                                                      k.req.config.digiPass)])

\* the catalog lookup is answered
Cinemeta(o) ==
    /\ apc = "cinemeta"
    /\ Becomes(CinemetaEnds(Issued(Cur, "cinemeta", o.kind, ""), o))

\* what the awaited search call ends with: an error, or provider items
SearchOutcomes ==
    [kind : {"throw"}, items : {<<>>}]
      \cup [kind : {"items"}, items : SeqsUpTo(RawItems, MaxResults)]

\* search(text): [] after an error or when nothing was found
searchResultsOf(o) ==
    IF o.kind = "throw" THEN <<>>
    ELSE [i \in 1..Len(o.items) |-> searchItem(o.items[i])]

\* the stream handler once the search call of configuration k ended with
\* o: it scores the results and goes on to the detail of the best one
SearchEnds(k, o) ==
    LET searchResults == searchResultsOf(o) IN
      IF Len(searchResults) > 0
        THEN LET scoredResults_ == scoredResults(searchResults, k.req.type,
                                                 normalizeTitle(k.title))
                 bestMatch == bestMatchOf(scoredResults_)
                 k1 == [k EXCEPT !.scored = scoredResults_]
             IN IF bestMatch.score > 0
                  THEN Call_getMovieData([k1 EXCEPT !.found = bestMatch.item.id])
                  ELSE Respond(k1, StreamResponse(<<>>))
        ELSE Respond(k, StreamResponse(<<>>))

\* the search call is answered
Search(o) ==
    /\ apc = "search"
    /\ Becomes(SearchEnds(Issued(Cur, "search", o.kind, ""), o))

\* the operation is over and its caller is gone; the instance stays
Finish ==
    /\ apc = "done"
    /\ Becomes(Fresh(digi))

AddonNext ==
    \/ \E u \in Credentials, p \in Credentials : Construct(u, p)
    \/ InvokeIsLogin
    \/ InvokeLogin
    \/ InvokeGetMovieData
    \/ \E u \in Credentials, p \in Credentials : Validate(u, p)
    \/ \E o \in ProbeOutcomes : Probe(o)
    \/ \E o \in LoginOutcomes : Login(o)
    \/ \E o \in DetailOutcomes : Detail(o)
    \/ \E c \in Configs, t \in {"movie", "series"}, i \in Ids, x \in BOOLEAN :
          Stream(c, t, i, x)
    \/ \E o \in CinemetaOutcomes : Cinemeta(o)
    \/ \E o \in SearchOutcomes : Search(o)
    \/ Finish

\* ------------------------------------------------------------------------
\* Concurrent requests: each handler call runs between its awaited calls,
\* and the calls of different requests are answered in any order
\* ------------------------------------------------------------------------

Requests == 1..MaxRequests

\* the tokens the provider issues, one per accepted login call
SessionTokens == <<"t1", "t2", "t3", "t4">>

\* every request sharing the instance of the first one
instanceOf_shared(r) == 1

\* const digi = new Digimovie(..) inside the handler: the instance a
\* request works on is the one it created
instanceOf(r) == r

\* the configuration request r runs in: its own, with the fields of the
\* instance it works on
View(r) == [sess[r] EXCEPT !.digi = sess[instanceOf(r)].digi]

\* request r ran to configuration k
Becomes_r(r, k) ==
    sess' = [[sess EXCEPT ![r] = k] EXCEPT ![instanceOf(r)].digi = k.digi]

Idle == Fresh(NewDigimovie("", ""))

SessionsInit ==
    /\ sess = [r \in Requests |-> Idle]
    /\ granted = [r \in Requests |-> {}]
    /\ sentAuth = [r \in Requests |-> {}]
    /\ issued = 0

\* a stream request arrives
StreamArrives(r) ==
    /\ sess[r].pc = "idle"
    /\ Becomes_r(r, StreamBegins(Idle,
                     [parsed |-> TRUE, digiUser |-> "secret",
                      digiPass |-> "secret"],
                     "movie", <<"t", "t", "1">>, FALSE))
    /\ UNCHANGED <<granted, sentAuth, issued, rvars, avars, tvars>>

\* a validation request arrives
ValidateArrives(r) ==
    /\ sess[r].pc = "idle"
    /\ Becomes_r(r, ValidateBegins(Idle, "secret", "secret"))
    /\ UNCHANGED <<granted, sentAuth, issued, rvars, avars, tvars>>

\* the catalog lookup of request r is answered
CinemetaAnswers(r, o) ==
    /\ sess[r].pc = "cinemeta"
    /\ Becomes_r(r, CinemetaEnds(Issued(View(r), "cinemeta", o.kind, ""), o))
    /\ UNCHANGED <<granted, sentAuth, issued, rvars, avars, tvars>>

\* the get_profile call of request r, carrying this.token, is answered
ProbeAnswers(r, o) ==
    /\ sess[r].pc = "probe"
    /\ LET k == View(r) IN
         /\ sentAuth' = [sentAuth EXCEPT ![r] = @ \cup {k.digi.token}]
         /\ Becomes_r(r, ProbeEnds(Issued(k, "get_profile", o, k.digi.token), o))
    /\ UNCHANGED <<granted, issued, rvars, avars, tvars>>

\* the login call of request r is rejected or fails
LoginFails(r, kind) ==
    /\ sess[r].pc = "loginCall"
    /\ Becomes_r(r, LoginEnds(Issued(View(r), "login", kind, ""),
                              [kind |-> kind, auth_token |-> Undefined,
                               refresh_token |-> Undefined]))
    /\ UNCHANGED <<granted, sentAuth, issued, rvars, avars, tvars>>

\* the login call of request r is accepted: the provider issues a token,
\* or answers with the status flag and no token
LoginAnswers(r, withToken) ==
    /\ sess[r].pc = "loginCall"
    /\ issued < MaxTokens
    /\ LET o == [kind |-> "status",
                 auth_token |-> IF withToken THEN SessionTokens[issued + 1]
                                ELSE Undefined,
                 refresh_token |-> IF withToken THEN "r1" ELSE Undefined]
       IN /\ granted' = [granted EXCEPT ![r] = @ \cup {o.auth_token}]
          /\ Becomes_r(r, LoginEnds(Issued(View(r), "login", "status", ""), o))
    /\ issued' = issued + 1
    /\ UNCHANGED <<sentAuth, rvars, avars, tvars>>

\* the search call of request r is answered
SearchAnswers(r, o) ==
    /\ sess[r].pc = "search"
    /\ Becomes_r(r, SearchEnds(Issued(View(r), "search", o.kind, ""), o))
    /\ UNCHANGED <<granted, sentAuth, issued, rvars, avars, tvars>>

\* the get_movie_detail call of request r, carrying this.token, is answered
DetailAnswers(r, o) ==
    /\ sess[r].pc = "detail"
    /\ sess[r].calls["get_movie_detail"] < MaxDetailFetches
         \/ o.kind \notin {"401", "403"}
    /\ LET k == View(r) IN
         /\ sentAuth' = [sentAuth EXCEPT ![r] = @ \cup {k.digi.token}]
         /\ Becomes_r(r, DetailEnds(
                Issued(k, "get_movie_detail", o.kind, k.found), o))
    /\ UNCHANGED <<granted, issued, rvars, avars, tvars>>

\* request r is over; the next request in its place starts from nothing
RequestEnds(r) ==
    /\ sess[r].pc = "done"
    /\ sess' = [sess EXCEPT ![r] = Idle]
    /\ granted' = [granted EXCEPT ![r] = {}]
    /\ sentAuth' = [sentAuth EXCEPT ![r] = {}]
    /\ UNCHANGED <<issued, rvars, avars, tvars>>

\* answers the collaborators give while several requests run
SessionCinemetaOutcomes ==
    {[kind |-> "null", name |-> <<>>], [kind |-> "name", name |-> <<"M", "a", "t">>]}

SessionSearchOutcomes ==
    {[kind |-> "throw", items |-> <<>>],
     [kind |-> "items",
      items |-> <<[title_en |-> <<"M", "a", "t">>, type |-> "movie", id |-> "m1"]>>]}

SessionDetailOutcomes ==
    [kind : {"401", "noresponse"}, data : {NullData}]
      \cup {[kind |-> "status", data |-> DetailData(TRUE, <<>>, FALSE, <<>>)]}

SessionsNext ==
    \E r \in Requests :
        \/ StreamArrives(r)
        \/ ValidateArrives(r)
        \/ \E o \in SessionCinemetaOutcomes : CinemetaAnswers(r, o)
        \/ \E o \in ProbeOutcomes : ProbeAnswers(r, o)
        \/ \E kind \in {"throw", "nostatus"} : LoginFails(r, kind)
        \/ \E withToken \in BOOLEAN : LoginAnswers(r, withToken)
        \/ \E o \in SessionSearchOutcomes : SearchAnswers(r, o)
        \/ \E o \in SessionDetailOutcomes : DetailAnswers(r, o)
        \/ RequestEnds(r)

vars == <<rvars, avars, tvars, svars>>

Init == RelayInit /\ AddonInit /\ TitleIdle /\ SessionsInit

SpecSessions == Init /\ [][SessionsNext]_vars

\* ------------------------------------------------------------------------
\* Timers: what makes an awaited call end when the upstream stays silent
\* ------------------------------------------------------------------------

\* timeout: 30000 of the gateway's axios call: the timer fires and the call
\* is rejected with an error
FetchTimeout ==
    /\ rpc = "fetching"
    /\ FetchDone([kind |-> "error", size |-> 0, ctype |-> "none"])

\* requests and answers of one gateway request and one resolution
LiveUrls ==
    {NoUrl("missing"),
     [given |-> "text", wellFormed |-> TRUE, host |-> <<"b">>],
     [given |-> "text", wellFormed |-> TRUE, host |-> <<"a", "b">>]}

LiveUpstreamOutcomes ==
    {[kind |-> "ok", size |-> 0, ctype |-> "video/mp4"]}

\* one gateway and one addon handler; an upstream answers a call or stays
\* silent; the only timer is the one of the gateway's fetch: the Axios calls
\* of Digimovie and getCinemeta set no timeout
LiveNext ==
    \/ \E u \in LiveUrls : ProxyGet(u)
    \/ FollowRedirect(<<"b">>)
    \/ \E res \in LiveUpstreamOutcomes : FetchDone(res)
    \/ FetchTimeout
    \/ NextRequest
    \/ Stream([parsed |-> TRUE, digiUser |-> "secret", digiPass |-> "secret"],
              "movie", <<"t", "t", "1">>, FALSE)
    \/ \E o \in SessionCinemetaOutcomes : Cinemeta(o)
    \/ \E o \in ProbeOutcomes : Probe(o)
    \/ \E o \in LoginOutcomes : Login(o)
    \/ \E o \in SessionSearchOutcomes : Search(o)
    \/ \E o \in SessionDetailOutcomes : Detail(o)
    \/ Finish

\* the timer of a pending fetch does fire; nothing obliges an upstream to
\* answer or a client to send a request
SpecLive == Init /\ [][LiveNext]_vars /\ WF_vars(FetchTimeout)

\* the state in which a caller is about to normalise a title
InitTitle == RelayInit /\ AddonInit /\ TitleInit /\ SessionsInit

SpecTitle == InitTitle /\ [][TitleNext]_vars

SpecRelay == Init /\ [][RelayNext]_vars

SpecAddon == Init /\ [][AddonNext]_vars

\* ------------------------------------------------------------------------
\* Properties of the forwarding gateway
\* ------------------------------------------------------------------------

\* h equals an allowlist entry, or is some prefix, a dot and an entry
OnAllowlist(h) ==
    \E i \in DOMAIN ALLOWED_DOMAINS :
        LET d == ALLOWED_DOMAINS[i] IN
          \/ h = d
          \/ /\ Len(h) > Len(d)
             /\ h[Len(h) - Len(d)] = "."
             /\ \A k \in 1..Len(d) : h[Len(h) - Len(d) + k] = d[k]

\* the request carries a url the parser accepts
Parsed == targetUrl.given = "text" /\ targetUrl.wellFormed

RequestedHost == hostname(targetUrl)

\* the host of the final response URL: the last redirect target, or the
\* requested host when nothing redirected
FinalHost == IF chain = <<>> THEN RequestedHost ELSE chain[Len(chain)]

Answered == rpc = "done" /\ upstream.kind = "ok"

\* C2: a request whose target hostname is neither an allowlist entry nor
\* ends with "." followed by an entry is answered 403, and no upstream
\* fetch is ever issued for it.
C2_DisallowedHostNeverFetched ==
    (Parsed /\ ~OnAllowlist(RequestedHost)) =>
        /\ fetches = 0
        /\ chain = <<>>
        /\ rpc # "fetching"
        /\ (rpc = "done" => sent = <<ErrorResponse(403)>>)

\* a look-alike host ("ab" for the entry "b") was requested and refused
C2_Witness ==
    /\ rpc = "done"
    /\ Parsed
    /\ RequestedHost = <<"a", "b">>
    /\ sent = <<ErrorResponse(403)>>
    /\ fetches = 0

\* C3: when the initial host is allowlisted but the host of the final
\* response URL fails the check, the answer is 403 and carries none of the
\* fetched bytes; a 200 is sent only when both hosts pass the check.
C3_FinalHostChecked ==
    /\ (Answered /\ OnAllowlist(RequestedHost) /\ ~OnAllowlist(FinalHost)) =>
           sent = <<ErrorResponse(403)>>
    /\ \A i \in DOMAIN sent :
           sent[i].status = 200 =>
               /\ Parsed
               /\ OnAllowlist(RequestedHost)
               /\ OnAllowlist(FinalHost)

\* an allowed host redirected to a host off the list and the body was held
C3_Witness ==
    /\ Answered
    /\ OnAllowlist(RequestedHost)
    /\ chain # <<>>
    /\ ~OnAllowlist(FinalHost)
    /\ upstream.size > 0
    /\ sent = <<ErrorResponse(403)>>

\* C4: no request whose redirect chain passes through a host outside the
\* allowlist, as an intermediate hop or as the final hop, is answered with
\* a 200 relay of upstream bytes.
C4_EveryHopValidated ==
    (\E k \in DOMAIN chain : ~OnAllowlist(chain[k])) =>
        \A i \in DOMAIN sent : sent[i].status # 200

\* C5 as stated: every request whose buffered upstream body exceeds 10 MiB
\* is answered 413 without body bytes, and a body of at most 10 MiB that
\* passed both host checks is relayed whole.
C5_OversizedAlways413 ==
    /\ (Answered /\ upstream.size > 10 * 1024 * 1024) =>
           sent = <<ErrorResponse(413)>>
    /\ (Answered /\ upstream.size <= 10 * 1024 * 1024
           /\ OnAllowlist(RequestedHost) /\ OnAllowlist(FinalHost)) =>
           sent = <<Response(200, upstream.size, upstream.ctype)>>

\* C5 (amended): a request whose buffered upstream body exceeds 10 MiB is
\* never sent any body byte, and is answered 413 when the final host passed
\* the allowlist check (403 when it did not); a body of at most 10 MiB that
\* passed both host checks is relayed whole.
C5_OversizedRejected ==
    /\ (Answered /\ upstream.size > 10 * 1024 * 1024) =>
           /\ \A i \in DOMAIN sent : sent[i].bytes = 0
           /\ OnAllowlist(FinalHost) => sent = <<ErrorResponse(413)>>
           /\ ~OnAllowlist(FinalHost) => sent = <<ErrorResponse(403)>>
    /\ (Answered /\ upstream.size <= 10 * 1024 * 1024
           /\ OnAllowlist(RequestedHost) /\ OnAllowlist(FinalHost)) =>
           sent = <<Response(200, upstream.size, upstream.ctype)>>

\* a body one byte over the cap was refused, after a redirect
C5_Witness ==
    /\ Answered
    /\ upstream.size = 10 * 1024 * 1024 + 1
    /\ chain # <<>>
    /\ sent = <<ErrorResponse(413)>>

\* the status the first failing step gives, the host and size steps being
\* those of the response the fetch returned
ExpectedStatus ==
    IF ~Parsed THEN 400
    ELSE IF ~OnAllowlist(RequestedHost) THEN 403
    ELSE IF upstream.kind = "ok" /\ ~OnAllowlist(FinalHost) THEN 403
    ELSE IF upstream.kind = "ok" /\ upstream.size > 10 * 1024 * 1024 THEN 413
    ELSE IF upstream.kind = "error" THEN 500
    ELSE 200

\* C6: every relay request ends with exactly one response; its status is
\* that of the first failing step (400 url, 403 initial or final host, 413
\* size, 500 upstream error) and 200 with the upstream content-type and
\* body otherwise.
C6_OneResponsePerRequest ==
    /\ rpc # "done" => sent = <<>>
    /\ rpc = "done" =>
           /\ Len(sent) = 1
           /\ sent[1].status = ExpectedStatus
           /\ sent[1].status = 200 =>
                  /\ sent[1].ctype = upstream.ctype
                  /\ sent[1].bytes = upstream.size
           /\ sent[1].status # 200 => sent[1].bytes = 0

\* the upstream failed after the last allowed redirect and 500 was sent
C6_Witness ==
    /\ rpc = "done"
    /\ Len(chain) = maxRedirects
    /\ upstream.kind = "error"
    /\ Len(sent) = 1
    /\ sent[1].status = 500

\* ------------------------------------------------------------------------
\* Properties of the provider session and of the stream handler
\* ------------------------------------------------------------------------

\* a stream request is being handled or has just been answered
InResolution == req.id # <<>>

\* C1: within a resolution getMovieData re-logs in at most once and issues
\* at most two get_movie_detail calls, whatever the provider answers; stated
\* for the case the claim singles out: the one login call stored its
\* tokens and every later login() was satisfied by the validity probe.
C1_RetryOnce ==
    (InResolution /\ calls["login"] = 1
       /\ digi.token \in AuthTokens /\ digi.refreshToken \in RefreshTokens) =>
        /\ relogins <= 1
        /\ calls["get_movie_detail"] <= 2

\* the session has no username or no password
NoCredentials ==
    digi.username \in {"", Undefined} \/ digi.password \in {"", Undefined}

\* C7: login() on a session whose username or password is empty or missing
\* returns false, issues neither the validity probe nor the login call, and
\* leaves token and refreshToken as they were.
C7_LoginWithoutCredentials ==
    /\ [](NoCredentials =>
             /\ calls["get_profile"] = 0
             /\ calls["login"] = 0
             /\ apc \notin {"probe", "loginCall"}
             /\ (apc = "done" /\ ret.op = "login") =>
                    ret = Returned("login", "false"))
    /\ [][NoCredentials =>
             /\ digi'.token = digi.token
             /\ digi'.refreshToken = digi.refreshToken]_vars

\* login() was invoked on a session without password and returned false
C7_Witness ==
    /\ apc = "done"
    /\ digi.username = "secret"
    /\ digi.password = ""
    /\ ret = Returned("login", "false")
    /\ calls = NoCalls

\* C8: when the probe reports the session valid, login() returns true and
\* the login call is not issued; the probe never raises and never changes
\* token or refreshToken.
C8_ValidSessionKept ==
    /\ []((last.name = "get_profile" /\ last.answer = "status") =>
             /\ apc # "loginCall"
             /\ (apc = "done" /\ ret.op = "login") =>
                    /\ ret = Returned("login", "true")
                    /\ calls["login"] = 0)
    /\ [][apc = "probe" =>
             /\ digi'.token = digi.token
             /\ digi'.refreshToken = digi.refreshToken
             /\ ret'.kind # "throw"
             /\ \A i \in DOMAIN out' : out'[i].status # 500]_vars

\* login() on a session holding a token was answered "valid" by the probe
C8_Witness ==
    /\ apc = "done"
    /\ ret = Returned("login", "true")
    /\ last = Exchange("get_profile", "status", digi.token)
    /\ digi.token \in AuthTokens
    /\ calls["get_profile"] = 1
    /\ calls["login"] = 0

\* C9: when the login call fails (transport error, rejected credentials,
\* or a success flag without tokens) login() returns false without raising,
\* and login() returns true after a login call only when an auth token and
\* a refresh token were stored.
C9_LoginFailureReturnsFalse ==
    (apc = "done" /\ ret.op = "login" /\ last.name = "login") =>
        /\ ret.kind = "return"
        /\ last.answer \in {"throw", "nostatus"} => ret.value = "false"
        /\ ret.value = "true" =>
               /\ digi.token \in AuthTokens
               /\ digi.refreshToken \in RefreshTokens

\* the configuration of the request lacks a username or a password
LacksCredentials ==
    \/ ~req.config.parsed
    \/ req.config.digiUser \in {"", Undefined}
    \/ req.config.digiPass \in {"", Undefined}

\* C10 as stated: a resolution request whose configuration lacks a username
\* or password is answered with an empty stream list and makes no network
\* call.
C10_MissingCredentialsEmptyList ==
    (InResolution /\ LacksCredentials) =>
        /\ calls = NoCalls
        /\ apc = "done" => out = <<StreamResponse(<<>>)>>

\* C10 (amended): a resolution request whose configuration lacks a username
\* or password makes no network call and is answered with a stream list
\* holding one placeholder entry, the configuration warning with an empty
\* url.
C10_MissingCredentialsNoCalls ==
    (InResolution /\ LacksCredentials) =>
        /\ calls = NoCalls
        /\ apc = "done"
        /\ out = <<StreamResponse(<<Link("", "config-warning")>>)>>

\* a request with a user name but no password was answered
C10_Witness ==
    /\ InResolution
    /\ req.config.parsed
    /\ req.config.digiUser = "secret"
    /\ req.config.digiPass = Undefined
    /\ apc = "done"
    /\ Len(out) = 1

\* a stream request that carries both credentials is being handled or has
\* just been answered
Resolving == InResolution /\ ~LacksCredentials

\* the resolution ended without a list of links out of the extraction
ResolutionFailed == Resolving /\ apc = "done" /\ links.kind # "links"

C12_LoginThenSearchThenDetail ==
    InResolution =>
        /\ (apc \in {"search", "detail"} \/ calls["search"] > 0
               \/ calls["get_movie_detail"] > 0) => loggedIn = "true"
        /\ (apc = "detail" \/ calls["get_movie_detail"] > 0) =>
               calls["search"] = 1
        /\ loggedIn = "false" =>
               /\ apc = "done"
               /\ calls["search"] = 0
               /\ calls["get_movie_detail"] = 0

\* the login call was rejected and the resolution ended there
C12_Witness ==
    /\ InResolution
    /\ apc = "done"
    /\ loggedIn = "false"
    /\ last.name = "login"
    /\ calls["login"] = 1
    /\ calls["search"] = 0
    /\ calls["get_movie_detail"] = 0

\* C13: a detail fetch is issued only for a top-scored candidate and only
\* when its score is greater than 0; when every candidate scores 0 or less,
\* or the search returns none, no detail fetch is issued and the resolution
\* yields an empty stream list.
C13_DetailOnlyForAcceptedTop ==
    InResolution =>
        /\ (apc = "detail" \/ calls["get_movie_detail"] > 0) =>
               \E i \in DOMAIN scored :
                   /\ scored[i].item.id = found
                   /\ scored[i].score > 0
                   /\ \A j \in DOMAIN scored : scored[j].score <= scored[i].score
        /\ (calls["search"] = 1
               /\ \A i \in DOMAIN scored : scored[i].score <= 0) =>
               /\ apc = "done"
               /\ calls["get_movie_detail"] = 0
               /\ out = <<StreamResponse(<<>>)>>

\* the second of two candidates scored higher and its detail was fetched
C13_Witness ==
    /\ InResolution
    /\ Len(scored) = 2
    /\ 0 < scored[1].score
    /\ scored[1].score < scored[2].score
    /\ found = scored[2].item.id
    /\ calls["get_movie_detail"] = 1

\* s begins with p / s contains p, position by position
IsPrefixOf(p, s) ==
    Len(p) <= Len(s) /\ \A i \in 1..Len(p) : s[i] = p[i]

IsPartOf(p, s) ==
    \E at \in 0..(Len(s) - Len(p)) : \A i \in 1..Len(p) : s[at + i] = p[i]

\* C14: the score of a candidate is (100 if its kind equals the requested
\* kind, else -50) plus (60 if the normalized names are equal, else 20 if
\* the candidate's normalized name starts with the normalized target, else
\* 10 if it contains it, else 0).
C14_ScoreFormula ==
    \A i \in DOMAIN scored :
        LET name == normalizeTitle(scored[i].item.name)
            target == normalizeTitle(title)
        IN scored[i].score =
             (IF scored[i].item.type = req.type THEN 100 ELSE 0 - 50)
               + (IF name = target THEN 60
                  ELSE IF IsPrefixOf(target, name) THEN 20
                  ELSE IF IsPartOf(target, name) THEN 10
                  ELSE 0)

\* target "Mat" for a movie: "The Mat" (movie) scored 160 and "Mat X"
\* (movie) scored 120
C14_Witness ==
    /\ req.type = "movie"
    /\ title = <<"M", "a", "t">>
    /\ Len(scored) = 2
    /\ scored[1].item.name = <<"T", "h", "e", " ", "M", "a", "t">>
    /\ scored[1].score = 160
    /\ scored[2].item.name = <<"M", "a", "t", " ", "X">>
    /\ scored[2].score = 120

\* the handler called getLinks for a request of this type and got links
ExtractedFor(type) ==
    InResolution /\ req.type = type /\ links.kind = "links"

\* C17: movie extraction returns one link per download entry, in the
\* provider's order, titled "<quality> - <size> - <encode> - <label>" and
\* with the entry's file reference as url; a detail with zero download
\* entries, or without the list, yields an empty sequence.
C17_MovieLinksFollowEntries ==
    ExtractedFor("movie") =>
        IF data.hasMovieUrls
          THEN /\ Len(links.links) = Len(data.movie_download_urls)
               /\ \A i \in DOMAIN links.links :
                      LET e == data.movie_download_urls[i] IN
                        /\ links.links[i].url = e.file
                        /\ links.links[i].title =
                               e.quality \o " - " \o e.size \o " - "
                                 \o e.encode \o " - " \o e.label
          ELSE links.links = <<>>

\* a detail with two download entries gave their two links, in order
C17_Witness ==
    /\ ExtractedFor("movie")
    /\ Len(data.movie_download_urls) = 2
    /\ Len(links.links) = 2
    /\ links.links[1].url = "f1"
    /\ links.links[2] = [url |-> "f2", title |-> "720p - 1GB - x264 - BluRay"]

\* the season and the episode the id of the request names: the texts
\* between its colons, 1 and 1 for an id without them
RequestedSeason ==
    LET parts == split(req.id) IN
      IF Len(parts) >= 3 THEN parts[2] ELSE <<"1">>

RequestedEpisode ==
    LET parts == split(req.id) IN
      IF Len(parts) >= 3 THEN digitValue(parts[3][1]) ELSE 1

\* the season number a bucket is labelled with: the text after the colon
LabelSeason(b) == Last(split(b.season_name))

\* bucket b is of the requested season / holds the requested episode
OfRequestedSeason(b) == ~b.isNull /\ LabelSeason(b) = RequestedSeason

HoldsEpisode(b) == b.hasLinks /\ RequestedEpisode <= Len(b.links)

\* C18: series extraction for id base:S:E returns, for each bucket of season
\* S that holds an episode E, one link whose url is the entry at 0-based
\* index E-1 of the bucket's episode list, the buckets in their order; an id
\* without season and episode is treated as season 1, episode 1.
C18_EpisodeOfEachSeasonBucket ==
    (ExtractedFor("series") /\ data.hasSerieUrls
       /\ \A i \in DOMAIN data.serie_download_urls :
              ~data.serie_download_urls[i].isNull) =>
        LET buckets == data.serie_download_urls
            Wanted(b) == OfRequestedSeason(b) /\ HoldsEpisode(b)
            wanted == SelectSeq(buckets, Wanted)
            FromWanted(l) ==
                \E i \in DOMAIN wanted :
                    \E e \in DOMAIN wanted[i].links :
                        wanted[i].links[e].movie = l.url
            got == SelectSeq(links.links, FromWanted)
        IN /\ Len(got) = Len(wanted)
           /\ \A i \in DOMAIN got :
                  /\ got[i].url = wanted[i].links[RequestedEpisode].movie
                  /\ got[i].title = wanted[i].quality \o " - " \o wanted[i].size

\* episode 2 of season 1 was asked for: the season-1 bucket with two
\* episodes gave its second entry, the season-1 bucket with one gave nothing
C18_Witness ==
    /\ ExtractedFor("series")
    /\ req.id = <<"t", "t", "1", ":", "1", ":", "2">>
    /\ Len(data.serie_download_urls) = 4
    /\ Len(links.links) >= 1
    /\ links.links[1] = [url |-> "e12", title |-> "720p - 1GB"]
    /\ \A i \in DOMAIN links.links : links.links[i].url # "e11b"

\* C19: extraction never raises to its caller: for every media kind, id
\* and detail payload (null, missing lists, lists holding null entries)
\* getLinks returns a possibly empty sequence.
C19_ExtractionNeverThrows ==
    InResolution => links.kind # "throw"

\* C20: every link returned by series extraction comes from a bucket whose
\* season is exactly the requested one, never from a bucket of a season
\* whose number merely begins with the requested number.
C20_OnlyRequestedSeason ==
    ExtractedFor("series") =>
        \A j \in DOMAIN links.links :
            \E i \in DOMAIN data.serie_download_urls :
                LET b == data.serie_download_urls[i] IN
                  /\ OfRequestedSeason(b)
                  /\ \E e \in DOMAIN b.links :
                         b.links[e].movie = links.links[j].url

\* C21: in series extraction a failure on one bucket does not affect the
\* others: a bucket without the episode index and a malformed bucket (a
\* null entry) are skipped, and every other well-formed bucket of the
\* requested season still contributes its link.
C21_BucketFailureIsLocal ==
    (ExtractedFor("series") /\ data.hasSerieUrls) =>
        \A i \in DOMAIN data.serie_download_urls :
            LET b == data.serie_download_urls[i] IN
              (OfRequestedSeason(b) /\ HoldsEpisode(b)) =>
                  \E j \in DOMAIN links.links :
                      links.links[j].url = b.links[RequestedEpisode].movie

\* C22: when several candidates share the highest score, the one selected
\* is the first of them in the provider's search result order.
C22_FirstOfEqualTopScores ==
    (InResolution /\ (apc = "detail" \/ calls["get_movie_detail"] > 0)) =>
        \E i \in DOMAIN scored :
            /\ scored[i].item.id = found
            /\ \A j \in DOMAIN scored : scored[j].score <= scored[i].score
            /\ \A j \in 1..(i - 1) : scored[j].score < scored[i].score

\* two different candidates tied at the top and the first was selected
C22_Witness ==
    /\ InResolution
    /\ calls["get_movie_detail"] = 1
    /\ Len(scored) = 2
    /\ scored[1].score = scored[2].score
    /\ scored[1].item.id # scored[2].item.id
    /\ found = scored[1].item.id

\* C25: when the catalog lookup fails or returns no title, the resolution
\* answers with an empty stream list and issues no provider call (no probe,
\* no login, no search, no detail fetch).
C25_NoMetadataNoProviderCall ==
    (InResolution /\ last.name = "cinemeta" /\ last.answer # "name") =>
        /\ apc = "done"
        /\ out = <<StreamResponse(<<>>)>>
        /\ \A n \in {"get_profile", "login", "search", "get_movie_detail"} :
               calls[n] = 0

\* the lookup gave a body without a name and the handler answered
C25_Witness ==
    /\ InResolution
    /\ last = Exchange("cinemeta", "noname", "")
    /\ apc = "done"
    /\ calls["cinemeta"] = 1
    /\ calls["login"] = 0

\* C26: a candidate of the requested kind outscores every candidate of
\* another kind, so whenever the results hold a candidate of the requested
\* kind, the candidate the detail is fetched for has the requested kind.
C26_RequestedKindWins ==
    InResolution =>
        /\ \A i \in DOMAIN scored : \A j \in DOMAIN scored :
               (scored[i].item.type = req.type
                  /\ scored[j].item.type # req.type) =>
                   scored[i].score > scored[j].score
        /\ ((apc = "detail" \/ calls["get_movie_detail"] > 0)
               /\ \E i \in DOMAIN scored : scored[i].item.type = req.type) =>
               \A i \in DOMAIN scored :
                   scored[i].item.id = found => scored[i].item.type = req.type

\* a movie with the exact name came first, a series that only contains the
\* name came second, and the series was selected for a series request
C26_Witness ==
    /\ InResolution
    /\ req.type = "series"
    /\ calls["get_movie_detail"] = 1
    /\ Len(scored) = 2
    /\ scored[1].item.type = "movie"
    /\ scored[1].score = 10
    /\ scored[2].item.type = "series"
    /\ scored[2].score = 110
    /\ found = scored[2].item.id

\* C23: sessions are request-scoped: in every interleaving of concurrent
\* resolution or validation requests, the authorization a request sends in
\* its probe or detail fetch is one its own login obtained, never one that
\* another request obtained, and the token its instance holds is its own.
C23_SessionsRequestScoped ==
    \A r \in Requests :
        /\ sentAuth[r] \subseteq granted[r]
        /\ sess[r].digi.token \in granted[r] \cup {""}
        /\ \A q \in Requests \ {r} :
               sentAuth[r] \cap (granted[q] \ {Undefined}) = {}

\* two requests are under way, each has logged in and has sent its own
\* token, the second while the first was waiting for its detail
C23_Witness ==
    /\ sess[1].pc = "detail"
    /\ sess[2].pc = "detail"
    /\ granted[1] = {"t1"}
    /\ granted[2] = {"t2"}
    /\ sentAuth[1] = {"t1"}
    /\ sentAuth[2] = {"t2"}

\* the handler waits for the answer of a provider call
AwaitingProvider == apc \in {"probe", "loginCall", "search", "detail"}

\* a relay request whose fetch is pending is answered in the end
RelayAnsweredInTime == (rpc = "fetching") ~> (rpc = "done")

\* C24: every provider call (probe, login, search, detail fetch) and the
\* relay fetch is bounded by a timeout handled as a transport failure, so
\* every resolution request waiting for a provider call and every relay
\* request waiting for its fetch is answered in the end, even when the
\* upstream never answers.
C24_EveryRequestAnswered ==
    /\ AwaitingProvider ~> (apc = "done")
    /\ (rpc = "fetching") ~> (rpc = "done")

\* ------------------------------------------------------------------------
\* Properties of normalizeTitle
\* ------------------------------------------------------------------------

\* C15: normalize is idempotent: normalizeTitle(normalizeTitle(x)) equals
\* normalizeTitle(x) for every input x.
C15_NormalizeIdempotent ==
    Len(passes) >= 2 => passes[2] = passes[1]

Articles == { <<"t", "h", "e">>, <<"a">>, <<"a", "n">> }

\* s is the word w, a blank, and more text
BeginsWithWord(s, w) ==
    /\ Len(s) > Len(w) + 1
    /\ \A i \in 1..Len(w) : s[i] = w[i]
    /\ s[Len(w) + 1] = " "

\* C16: normalize strips exactly one leading article: a title that begins
\* with two articles, each followed by a blank, keeps the second one at the
\* head of its normal form.
C16_SecondArticleKept ==
    \A a \in Articles, b \in Articles :
        LET lower == [i \in DOMAIN input |->
                        IF input[i] = "T" THEN "t" ELSE input[i]]
        IN (/\ Len(passes) >= 1
            /\ BeginsWithWord(lower, a)
            /\ BeginsWithWord(SubSeq(lower, Len(a) + 2, Len(lower)), b)) =>
               (passes[1] = b \/ BeginsWithWord(passes[1], b))

====
